---- MODULE Spec2Model ----
(***************************************************************************)
(* Model of 01_hnet.ipynb: the dynamic chunking pipeline of an H-Net.      *)
(*                                                                         *)
(*   SimilarityRouter.forward, downsample, smoothing_module, upsample and  *)
(*   HNet.forward are translated from the notebook's code cells.           *)
(*                                                                         *)
(* Tensors.  A tensor of shape (B, L, D) is a sequence of B rows, each a   *)
(* sequence of L features.  The model fixes the feature dimension to one   *)
(* scalar per position, so that every nn.Linear is an affine map v -> w*v  *)
(* + bias on scalars and the cosine similarity of the router is the sign   *)
(* of a product.  TLA+ sequences are 1-based: the code's position t is     *)
(* element t+1 of a row.  Chunk indices keep the code's 0-based VALUES.    *)
(*                                                                         *)
(* Numbers.  Features before the main network are integers.  Boundary      *)
(* probabilities and everything after the smoother are exact rationals     *)
(* <<numerator, denominator>> in lowest terms with denominator > 0.        *)
(***************************************************************************)
EXTENDS Integers, Sequences, FiniteSets, TLC

\* ------------------------------------------------------------------ bounds
MaxBatch  == 2    \* batch sizes 1..MaxBatch
MaxLen    == 3    \* stage-0 sequence lengths 1..MaxLen
MaxStages == 2    \* num_stages in 1..MaxStages

\* Feature values of the stage-0 input x0 (torch.randn in the example cell).
XVals == {-1, 1}

\* ------------------------------------------------------- rational numbers
Abs(n) == IF n < 0 THEN -n ELSE n

RECURSIVE GCD(_, _)
GCD(a, b) == IF b = 0 THEN a ELSE GCD(b, a % b)

\* n/d in lowest terms, d > 0
Rat(n, d) == LET g == GCD(Abs(n), d) IN <<n \div g, d \div g>>

R(n)       == <<n, 1>>
RAdd(x, y) == Rat(x[1] * y[2] + y[1] * x[2], x[2] * y[2])
RSub(x, y) == Rat(x[1] * y[2] - y[1] * x[2], x[2] * y[2])
RMul(x, y) == Rat(x[1] * y[1], x[2] * y[2])
RGeq(x, y) == x[1] * y[2] >= y[1] * x[2]

ZeroR == R(0)
OneR  == R(1)
HalfR == Rat(1, 2)

\* ---------------------------------------------------------------- helpers
Sign(n) == IF n > 0 THEN 1 ELSE IF n < 0 THEN -1 ELSE 0

Max(S) == CHOOSE m \in S : \A n \in S : n <= m

RECURSIVE SumTo(_, _)
\* b[1] + ... + b[n]
SumTo(brow, n) == IF n <= 0 THEN 0 ELSE brow[n] + SumTo(brow, n - 1)

\* number of boundaries of one batch element: sum(b[i])
ChunkCount(brow) == SumTo(brow, Len(brow))

\* x[:, t] of every row padded on the right with `zero` up to length n
PadRow(row, n, zero) == [t \in 1..n |-> IF t <= Len(row) THEN row[t] ELSE zero]

\* ------------------------------------------------- SimilarityRouter (cell 3)
\* nn.Linear(dim, dim, bias=False): with one feature per position the weight
\* matrix is one number.  The values are representatives of a random
\* initialisation; only the sign of W_q * W_k reaches the result.
W_q == 2
W_k == 3

\* k_shifted = cat([k[:, :1], k[:, :-1]]): position 0 is compared with itself
KShifted(krow) == [t \in 1..Len(krow) |-> IF t = 1 THEN krow[1] ELSE krow[t - 1]]

\* cos_sim = dot / ((|q| + 1e-8) * (|k| + 1e-8)) for scalar q, k.  For integer
\* q, k with |q|, |k| >= 1 the float32 sum |q| + 1e-8 rounds to |q|, so the
\* quotient is exactly +1 or -1; if q or k is 0 the dot product is 0 and the
\* quotient is 0 / 1e-16 = 0.
CosSim(qv, kv) == Sign(qv * kv)

\* p = 0.5 * (1 - cos_sim)
ProbOf(cos) == Rat(1 - cos, 2)

\* the probabilities the similarity rule computes, before the override
ComputedP(xrow) ==
    LET q  == [t \in 1..Len(xrow) |-> W_q * xrow[t]]
        ks == KShifted([t \in 1..Len(xrow) |-> W_k * xrow[t]])
    IN  [t \in 1..Len(xrow) |-> ProbOf(CosSim(q[t], ks[t]))]

\* faulty variant: the override of p[:, 0] left out
ForceFirst_Skipped(prow) == prow

\* p[:, 0] = 1.0
ForceFirst(prow) == [prow EXCEPT ![1] = OneR]

\* b = (p >= 0.5).float()
Threshold(pv) == IF RGeq(pv, HalfR) THEN 1 ELSE 0

\* SimilarityRouter.forward: returns (p, b), each of shape (B, L)
Router(x_hat) ==
    LET p == [i \in 1..Len(x_hat) |-> ForceFirst(ComputedP(x_hat[i]))]
        b == [i \in 1..Len(x_hat) |-> [t \in 1..Len(p[i]) |-> Threshold(p[i][t])]]
    IN  [p |-> p, b |-> b]

\* ------------------------------------------------------- downsample (cell 4)
\* mask[i].nonzero().squeeze(-1): the positions with b = 1, ascending
Nonzero(brow) == SelectSeq([t \in 1..Len(brow) |-> t], LAMBDA t : brow[t] # 0)

\* row[idx]
Gather(row, idx) == [k \in 1..Len(idx) |-> row[idx[k]]]

\* downsample(x_hat, b, p): returns the pair (x_next_padded, P_next_padded).
\* Nothing else is returned, and an element that selects no position is
\* padded like any other.  With every element empty max_len is 0.
downsample(x_hat, b, p) ==
    LET B       == Len(x_hat)
        idx     == [i \in 1..B |-> Nonzero(b[i])]
        x_next  == [i \in 1..B |-> Gather(x_hat[i], idx[i])]
        P_next  == [i \in 1..B |-> Gather(p[i], idx[i])]
        max_len == Max({Len(x_next[i]) : i \in 1..B})
    IN  << [i \in 1..B |-> PadRow(x_next[i], max_len, 0)],
           [i \in 1..B |-> PadRow(P_next[i], max_len, ZeroR)] >>

\* ------------------------------------------------- smoothing_module (cell 5)
RECURSIVE SmoothRow(_, _, _)
\* bar_z[b, 0..t-1] for one batch element.  The loop runs t over the whole
\* padded length z_hat.shape[1]: there is no per-element length.
SmoothRow(zrow, Prow, t) ==
    IF t = 1 THEN << zrow[1] >>
    ELSE LET prev == SmoothRow(zrow, Prow, t - 1)
         IN  Append(prev, RAdd(RMul(Prow[t], zrow[t]),
                               RMul(RSub(OneR, Prow[t]), prev[t - 1])))

\* smoothing_module(z_hat, P).  bar_z[b, 0] = z_hat[b, 0] raises IndexError
\* when the compressed length is 0.
smoothing_module(z_hat, P) ==
    IF \E i \in 1..Len(z_hat) : Len(z_hat[i]) = 0
    THEN [fault |-> TRUE,  bar_z |-> << >>]
    ELSE [fault |-> FALSE,
          bar_z |-> [i \in 1..Len(z_hat) |-> SmoothRow(z_hat[i], P[i], Len(z_hat[i]))]]

\* --------------------------------------------------------- upsample (cell 6)
\* faulty variant: the counter advanced at every position but the last
Advance_EveryPosition(brow, t, original_L, chunk_idx) ==
    IF t < original_L - 1 THEN chunk_idx + 1 ELSE chunk_idx

\* if b[i, t] == 1 and t < original_L - 1: chunk_idx += 1     (t is 0-based)
Advance(brow, t, original_L, chunk_idx) ==
    IF brow[t + 1] = 1 /\ t < original_L - 1 THEN chunk_idx + 1 ELSE chunk_idx

RECURSIVE UpsampleRow(_, _, _, _, _, _)
\* The loop `for t in range(original_L)` of one batch element, from position
\* t with the counter at chunk_idx.  z[i, t] = bar_z[i, chunk_idx] raises
\* IndexError when chunk_idx is not below the padded compressed length
\* bar_z.shape[1]; `reads` lists the index used at every position reached,
\* the one that raised included.
UpsampleRow(bar_row, brow, original_L, t, chunk_idx, acc) ==
    IF t >= original_L
    THEN [fault |-> FALSE, z |-> acc.z, reads |-> acc.reads]
    ELSE IF chunk_idx >= Len(bar_row)
    THEN [fault |-> TRUE, z |-> acc.z, reads |-> Append(acc.reads, chunk_idx)]
    ELSE UpsampleRow(bar_row, brow, original_L, t + 1,
                     Advance(brow, t, original_L, chunk_idx),
                     [z     |-> Append(acc.z, bar_row[chunk_idx + 1]),
                      reads |-> Append(acc.reads, chunk_idx)])

\* c[b == 1] = p[b == 1]; c[b == 0] = 1 - p[b == 0]
Confidence(bv, pv) == IF bv = 1 THEN pv ELSE RSub(OneR, pv)

\* faulty variant: the confidence applied to the copied latent
Returned_Scaled(zv, cv) == RMul(cv, zv)

\* What upsample hands back at a filled position: z[i, t], the copied latent.
\* c is computed and then left unused ("here we skip for simplicity").
Returned(zv, cv) == zv

\* upsample(bar_z, b, p, original_L, D).  Batch elements are processed in
\* order; the first IndexError ends the call, so `reads` covers the elements
\* up to and including the one that raised.
upsample(bar_z, b, p, original_L) ==
    LET B    == Len(bar_z)
        row  == [i \in 1..B |->
                   UpsampleRow(bar_z[i], b[i], original_L, 0, 0,
                               [z |-> << >>, reads |-> << >>])]
        bad  == {i \in 1..B : row[i].fault}
        last == IF bad = {} THEN B ELSE CHOOSE i \in bad : \A j \in bad : i <= j
        c    == [i \in 1..B |-> [t \in 1..original_L |-> Confidence(b[i][t], p[i][t])]]
    IN  [fault |-> bad # {},
         reads |-> [i \in 1..last |-> row[i].reads],
         c     |-> IF bad = {} THEN c ELSE << >>,
         z     |-> IF bad = {}
                   THEN [i \in 1..B |->
                           [t \in 1..original_L |-> Returned(row[i].z[t], c[i][t])]]
                   ELSE << >>]

\* ------------------------------------------------------------- HNet (cell 7)
VARIABLES
    num_stages,  \* self.num_stages
    enc_b,       \* bias of self.encoder, drawn at construction
    pc,          \* position inside HNet.forward
    s,           \* loop variable of the running loop (0-based stage)
    xs,          \* xs: stage inputs, xs[0] = x0
    ps,          \* ps: one (p, b, P_next) per compressed stage
    zs,          \* zs: outputs, innermost first
    fault,       \* "none", or "IndexError" once upsample raised it
    output,      \* the value forward returned
    log,         \* history: what every loop iteration read and produced
    call,        \* a direct call of a notebook function: its arguments
    ret          \* ... and its outcome

vars == <<num_stages, enc_b, pc, s, xs, ps, zs, fault, output, log, call, ret>>

\* nn.Linear(dim, dim) placeholders.  Weights are representatives of a random
\* initialisation; the encoder bias is drawn from EncBiases so that both
\* sign changes and exact zeros of x_hat occur.
EncW  == 2
MainW == 3
MainB == 1
DecW  == 2
DecB  == -1
SkipW == 1
SkipB == 1
EncBiases == {0, 2}

\* self.encoder(x), integer features
Encoder(x) ==
    [i \in 1..Len(x) |-> [t \in 1..Len(x[i]) |-> EncW * x[i][t] + enc_b]]
\* self.main(x), integer features in, rationals out
Main(x) ==
    [i \in 1..Len(x) |-> [t \in 1..Len(x[i]) |-> R(MainW * x[i][t] + MainB)]]
\* self.linear_skip(x), integer features
LinearSkip(x) ==
    [i \in 1..Len(x) |-> [t \in 1..Len(x[i]) |-> SkipW * x[i][t] + SkipB]]
\* self.decoder(z), rational features
Decoder(z) ==
    [i \in 1..Len(z) |->
       [t \in 1..Len(z[i]) |-> RAdd(RMul(R(DecW), z[i][t]), R(DecB))]]

\* z_s += skip (same shape on both sides)
AddSkip(z, skip) ==
    [i \in 1..Len(z) |-> [t \in 1..Len(z[i]) |-> RAdd(z[i][t], R(skip[i][t]))]]

\* tensor.shape[0], tensor.shape[1]
Batch(x)  == Len(x)
Length(x) == Len(x[1])
Last(q)   == q[Len(q)]

\* ps[s] and xs[s] for the 0-based stage s
StageRecord(s_) == ps[s_ + 1]
StageInput(s_)  == xs[s_ + 1]

\* faulty variant: the decompression loop started one stage too deep
FirstDecompress_OffByOne == num_stages

\* reversed(range(num_stages)): first value and successor
FirstDecompress == num_stages - 1
NextDecompress(s_) == s_ - 1

Idle == [status |-> "idle"]

Tensors(B, L, V) == [1..B -> [1..L -> V]]

Init ==
    /\ num_stages \in 1..MaxStages
    /\ enc_b \in EncBiases
    /\ \E B \in 1..MaxBatch, L \in 1..MaxLen :
          \E x0 \in Tensors(B, L, XVals) : xs = << x0 >>
    /\ ps = << >>
    /\ zs = << >>
    /\ pc = "compress"
    /\ s = 0
    /\ fault = "none"
    /\ output = << >>
    /\ log = << >>
    /\ call = Idle
    /\ ret = Idle

\* One iteration of `for s in range(self.num_stages)`: encoder, router,
\* downsample, and the two appends.
Compress ==
    /\ pc = "compress"
    /\ LET x_hat == Encoder(Last(xs))
           r     == Router(x_hat)
           d     == downsample(x_hat, r.b, r.p)
           rec   == [p |-> r.p, b |-> r.b, P_next |-> d[2]]
       IN  /\ xs' = Append(xs, d[1])
           /\ ps' = Append(ps, rec)
           /\ log' = Append(log, [op |-> "compress", s |-> s, x_hat |-> x_hat,
                                  rec |-> rec, L |-> Length(Last(xs)),
                                  ret |-> d])
    /\ s' = s + 1
    /\ pc' = IF s + 1 < num_stages THEN "compress" ELSE "main"
    /\ UNCHANGED <<num_stages, enc_b, zs, fault, output, call, ret>>

\* z_hat_S = self.main(xs[-1]); zs = [z_hat_S]
MainStep ==
    /\ pc = "main"
    /\ zs' = << Main(Last(xs)) >>
    /\ log' = Append(log, [op |-> "main", s |-> s])
    /\ s' = FirstDecompress
    /\ pc' = "decompress"
    /\ UNCHANGED <<num_stages, enc_b, xs, ps, fault, output, call, ret>>

\* One iteration of `for s in reversed(range(self.num_stages))`: smoother,
\* upsample, skip connection, decoder, append.  An IndexError of upsample
\* ends forward.  The loop names the smoother ema_smooth; the notebook's
\* recorded run passes that call and fails inside upsample, and the only
\* smoother the notebook defines is smoothing_module, so the call is
\* modelled as smoothing_module.
Decompress ==
    /\ pc = "decompress"
    /\ LET rec   == StageRecord(s)
           x_s   == StageInput(s)
           sm    == smoothing_module(Last(zs), rec.P_next)
           up    == upsample(sm.bar_z, rec.b, rec.p, Length(x_s))
           entry == [op |-> "decompress", s |-> s, rec |-> rec,
                     L |-> Length(x_s), z_hat |-> Last(zs),
                     bar_z |-> sm.bar_z, up |-> up]
       IN  IF sm.fault \/ up.fault
           THEN /\ pc' = "fault"
                /\ fault' = "IndexError"
                /\ log' = Append(log, entry)
                /\ UNCHANGED <<s, zs>>
           ELSE /\ zs' = Append(zs, Decoder(AddSkip(up.z, LinearSkip(Encoder(x_s)))))
                /\ log' = Append(log, entry)
                /\ s' = NextDecompress(s)
                /\ pc' = IF s = 0 THEN "return" ELSE "decompress"
                /\ fault' = fault
    /\ UNCHANGED <<num_stages, enc_b, xs, ps, output, call, ret>>

\* return zs[-1]
Return ==
    /\ pc = "return"
    /\ output' = Last(zs)
    /\ pc' = "done"
    /\ UNCHANGED <<num_stages, enc_b, s, xs, ps, zs, fault, log, call, ret>>

Next == Compress \/ MainStep \/ Decompress \/ Return

Spec == Init /\ [][Next]_vars

\* ------------------------------------------- direct calls of downsample
\* A cell may call downsample on any (x_hat, b, p): b is an arbitrary 0/1
\* tensor, not only one a router produced.  x_hat and p carry a distinct
\* value at every position, so that order and padding are visible.
InitDown ==
    /\ num_stages = 1
    /\ enc_b = 0
    /\ pc = "idle"
    /\ s = 0
    /\ xs = << >>
    /\ ps = << >>
    /\ zs = << >>
    /\ fault = "none"
    /\ output = << >>
    /\ log = << >>
    /\ \E B \in 1..MaxBatch, L \in 1..MaxLen :
          \E b \in Tensors(B, L, {0, 1}) :
             call = [fn    |-> "downsample",
                     x_hat |-> [i \in 1..B |-> [t \in 1..L |-> 10 * i + t]],
                     b     |-> b,
                     p     |-> [i \in 1..B |-> [t \in 1..L |-> Rat(t, L + 1)]]]
    /\ ret = [status |-> "pending"]

\* x_next, P_next = downsample(x_hat, b, p)
DownsampleCall ==
    /\ ret.status = "pending"
    /\ ret' = [status |-> "returned",
               value  |-> downsample(call.x_hat, call.b, call.p)]
    /\ UNCHANGED <<num_stages, enc_b, pc, s, xs, ps, zs, fault, output, log, call>>

NextDown == DownsampleCall

SpecDown == InitDown /\ [][NextDown]_vars

\* ================================================================ claims
\* log entries of the two loops
CompressEntries   == {k \in 1..Len(log) : log[k].op = "compress"}
DecompressEntries == {k \in 1..Len(log) : log[k].op = "decompress"}
\* decompression iterations whose upsample call returned
Upsampled == {k \in DecompressEntries : ~log[k].up.fault}

\* C1: in upsample every index read for every batch element and position is
\* below that element's chunk count sum(b[i]), and no raw IndexError ends
\* the call.
C1_ReadsBelowValidLength ==
    /\ fault # "IndexError"
    /\ \A k \in DecompressEntries :
         \A i \in DOMAIN log[k].up.reads :
           \A t \in DOMAIN log[k].up.reads[i] :
              log[k].up.reads[i][t] < ChunkCount(log[k].rec.b[i])

\* C2: the index upsample uses at the code's position t (element t + 1 here)
\* is the number of boundaries among positions 0..t, minus one.
C2_IdxIsInclusivePrefixSum ==
    \A k \in DecompressEntries :
      \A i \in DOMAIN log[k].up.reads :
        \A t \in DOMAIN log[k].up.reads[i] :
           log[k].up.reads[i][t] = SumTo(log[k].rec.b[i], t) - 1

\* C3: forward ends without a fault and returns a tensor of the shape of x0.
C3_ForwardReturnsInputShape ==
    /\ fault = "none"
    /\ pc = "done" => /\ Batch(output) = Batch(xs[1])
                      /\ \A i \in 1..Batch(output) : Len(output[i]) = Length(xs[1])

\* C4: downsample selects exactly the positions with b = 1, in order, pads
\* features and probabilities with zeros up to the largest chunk count of
\* the batch, and returns every element's chunk count with them.
C4_DownsampleReturnsValidLength ==
    \A e \in CompressEntries :
      LET v == log[e].ret
          b == log[e].rec.b
          B == Len(b)
          n == [i \in 1..B |-> ChunkCount(b[i])]
          m == Max({n[i] : i \in 1..B})
      IN  /\ \A i \in 1..B :
               /\ Len(v[1][i]) = m /\ Len(v[2][i]) = m
               /\ \A k \in 1..m :
                    IF k <= n[i]
                    THEN /\ v[1][i][k] = log[e].x_hat[i][Nonzero(b[i])[k]]
                         /\ v[2][i][k] = log[e].rec.p[i][Nonzero(b[i])[k]]
                    ELSE v[1][i][k] = 0 /\ v[2][i][k] = ZeroR
          /\ Len(v) >= 3
          /\ v[3] = n

\* C5: after the router p[:, 0] = 1.0 and b[:, 0] = 1 whatever similarity was
\* computed at position 0, and b_t = 1 exactly when p_t >= 0.5.
C5_RouterForcesFirstBoundary ==
    \A k \in CompressEntries :
      \A i \in 1..Len(log[k].rec.p) :
        /\ log[k].rec.p[i][1] = OneR
        /\ log[k].rec.b[i][1] = 1
        /\ \A t \in 1..Len(log[k].rec.p[i]) :
             (log[k].rec.b[i][t] = 1) <=> RGeq(log[k].rec.p[i][t], HalfR)

\* C5 witness: a router call where the similarity rule alone gives p = 0 at
\* position 0, and later positions hold p = 1/2 (boundary) and p = 0.
C5_Witness ==
    \E k \in CompressEntries :
      \E i \in 1..Len(log[k].rec.p) :
        /\ ComputedP(log[k].x_hat[i])[1] = ZeroR
        /\ \E t \in 2..Len(log[k].rec.p[i]) : log[k].rec.p[i][t] = HalfR
        /\ \E t \in 2..Len(log[k].rec.p[i]) : log[k].rec.p[i][t] = ZeroR

\* C6 as stated: upsample returns c_t * bar_z[index used at t].
C6_OutputScaledByConfidence ==
    \A k \in Upsampled :
      \A i \in 1..Len(log[k].up.z) :
        \A t \in 1..log[k].L :
           log[k].up.z[i][t] =
              RMul(Confidence(log[k].rec.b[i][t], log[k].rec.p[i][t]),
                   log[k].bar_z[i][log[k].up.reads[i][t] + 1])

\* C6 amended: upsample returns the smoothed latent at the index used at t,
\* unscaled (c is computed and dropped); in an all-boundary element the
\* compressed length is L and output position t is compressed latent t alone.
C6_OutputIsUnscaledLatent ==
    \A k \in Upsampled :
      \A i \in 1..Len(log[k].up.z) :
        /\ Len(log[k].up.z[i]) = log[k].L
        /\ \A t \in 1..log[k].L :
             log[k].up.z[i][t] = log[k].bar_z[i][log[k].up.reads[i][t] + 1]
        /\ (\A t \in 1..log[k].L : log[k].rec.b[i][t] = 1) =>
             /\ Len(log[k].bar_z[i]) = log[k].L
             /\ \A t \in 1..log[k].L : log[k].up.z[i][t] = log[k].bar_z[i][t]

\* C6 witness: an all-boundary element of length >= 2 whose confidence at
\* some position is 1/2 and whose latent there is not 0.
C6_Witness ==
    \E k \in Upsampled :
      \E i \in 1..Len(log[k].up.z) :
        /\ log[k].L >= 2
        /\ \A t \in 1..log[k].L : log[k].rec.b[i][t] = 1
        /\ \E t \in 1..log[k].L : /\ log[k].up.c[i][t] = HalfR
                                  /\ log[k].up.z[i][t] # ZeroR

\* C7: given an element that selects no position, downsample does not
\* return a result.
C7_EmptyElementIsFault ==
    ret.status = "returned" =>
      \A i \in 1..Len(call.b) : ChunkCount(call.b[i]) > 0

\* C8: per element the smoother sets bar_z[0] = z_hat[0], applies the
\* recurrence at the valid chunk indices 1..ValidLength-1 only, and leaves
\* every padded index out of it (bar_z stays the zero it was created with).
C8_SmootherSkipsPadding ==
    \A k \in DecompressEntries :
      \A i \in 1..Len(log[k].bar_z) :
        LET z == log[k].z_hat[i]
            P == log[k].rec.P_next[i]
            bar == log[k].bar_z[i]
            n == ChunkCount(log[k].rec.b[i])
        IN  /\ bar[1] = z[1]
            /\ \A t \in 2..n :
                 bar[t] = RAdd(RMul(P[t], z[t]), RMul(RSub(OneR, P[t]), bar[t - 1]))
            /\ \A t \in (n + 1)..Len(bar) : bar[t] = ZeroR

\* the (op, s) pairs of a complete forward with N stages
ExpectedOps(N) ==
    [k \in 1..(2 * N + 1) |->
       IF k <= N THEN << "compress", k - 1 >>
       ELSE IF k = N + 1 THEN << "main", N >>
       ELSE << "decompress", 2 * N + 1 - k >>]

\* C9: compression runs s = 0..N-1 storing one record per stage, the main
\* model runs once after the last compression, decompression runs s = N-1..0,
\* each step with the record and the input length of its own stage, so the
\* value a stage hands up has the shape of that stage's input and the value
\* returned is stage 0's.
C9_StageOrderAndRecords ==
    LET N == num_stages IN
    /\ Len(log) <= 2 * N + 1
    /\ \A k \in 1..Len(log) : << log[k].op, log[k].s >> = ExpectedOps(N)[k]
    /\ Len(ps) = Cardinality(CompressEntries)
    /\ Len(xs) = Len(ps) + 1
    /\ \A k \in CompressEntries : ps[log[k].s + 1] = log[k].rec
    /\ pc = "compress" => s = Len(ps) /\ s < N
    /\ pc = "decompress" => s = N - 1 - Cardinality(DecompressEntries)
    /\ Len(zs) = (IF Len(log) > N THEN 1 ELSE 0) + Cardinality(Upsampled)
    /\ Len(zs) >= 1 => zs[1] = Main(xs[N + 1])
    /\ \A k \in DecompressEntries :
         /\ log[k].rec = log[log[k].s + 1].rec
         /\ log[k].L = log[log[k].s + 1].L
         /\ log[k].L = Length(xs[log[k].s + 1])
    /\ \A k \in Upsampled :
         /\ Batch(zs[k - N]) = Batch(xs[log[k].s + 1])
         /\ \A i \in 1..Batch(zs[k - N]) :
              Len(zs[k - N][i]) = Length(xs[log[k].s + 1])
    /\ pc = "done" => /\ Len(log) = 2 * N + 1
                      /\ log[Len(log)].s = 0
                      /\ output = zs[N + 1]

\* C9 witness: a two-stage forward that returned, whose stages have inputs
\* of different lengths.
C9_Witness ==
    /\ pc = "done"
    /\ num_stages = 2
    /\ Length(xs[1]) > Length(xs[2])
    /\ Len(ps) = 2 /\ ps[1] # ps[2]

====
